---------------------------- MODULE Spec2Model ----------------------------
(***************************************************************************)
(* A model of doris::ObjectPool (be/src/common/object_pool.h): a list of   *)
(* type-erased (pointer, delete function) elements guarded by a SpinLock.  *)
(* Every public method is split at the points where another thread can     *)
(* observe its effect: taking the lock, each statement that touches        *)
(* _objects or calls a delete function, and the release of the lock_guard  *)
(* on return.  acquire_data takes no lock, so its two statements are two   *)
(* separate steps.                                                         *)
(***************************************************************************)
EXTENDS Integers, Sequences, FiniteSets, TLC

\* Number of threads that may call into the pools.
NumThreads == 2
\* Number of objects the callers allocate (and register) in a run.
MaxObj == 3
\* The same, in the runs where the threads call the locked methods of a
\* shared pool concurrently.
MaxLockedObj == 2
\* The same, in the runs where acquire_data races with the other methods.
MaxRaceObj == 1
\* A delete function is not invoked on a pointer that was already deleted
\* MaxDelete times: caps the count of deletions, which a race of
\* acquire_data with clear can repeat without end.
MaxDelete == 2

Threads == 1 .. NumThreads
\* The pools: no method involves more than two, a receiver and a source.
Pools == {1, 2}
Objs == 1 .. MaxObj

First(S) == CHOOSE x \in S : \A y \in S : x <= y
\* The pool that the threads of LockedSpec share.
SharedPool == First(Pools)
\* The thread that owns the pools: it constructs and destructs them and
\* calls acquire_data; it is the only thread of the single-threaded runs.
MainThread == First(Threads)

\* The threads of the runs where acquire_data races with another call.
Racers == {MainThread, First(Threads \ {MainThread})}

\* An unlocked SpinLock, an absent pool argument, a null pointer.
NoThread == 0
NoPool == 0
NoObj == 0

\* The two lambdas of add and add_array.
ScalarDelete == "delete"
ArrayDelete == "delete[]"
DeleteFn == {ScalarDelete, ArrayDelete}

VARIABLES
    alive,      \* alive[p]: pool p is constructed and not yet destructed
    objects,    \* objects[p]: _objects of pool p, a sequence of Elements
    lock,       \* lock[p]: the thread holding _lock of pool p, or NoThread
    pc,         \* pc[t]: where thread t is inside its current call
    frame,      \* frame[t]: the arguments and locals of thread t's call
    nextObj,    \* the next pointer the callers will allocate
    registered, \* registered[o]: the delete function o was registered with
    deleted     \* deleted[o]: the delete functions invoked on o, in order

vars == <<alive, objects, lock, pc, frame, nextObj, registered, deleted>>

\* struct Element { void* obj; DeleteFn delete_fn; }
Element(o, fn) == [obj |-> o, delete_fn |-> fn]

\* The pointers held by a sequence of Elements, in order.
ObjsOf(s) == [i \in 1 .. Len(s) |-> s[i].obj]

\* No call made by a delete function that is running.
NoInner == [op |-> "none", self |-> NoPool, t |-> NoObj, resume |-> "none"]

IdleFrame ==
    [op |-> "none", self |-> NoPool, src |-> NoPool, t |-> NoObj,
     fn |-> "none", it |-> 0, ret |-> NoObj, exc |-> FALSE, inner |-> NoInner,
     pre |-> <<>>, log |-> <<>>]

\* A call's frame: the arguments, exc for an exception that is leaving the
\* call, inner for the call that a running delete function makes and, as
\* history of the calls of MainThread, the lists of the pools at the call.
NewFrame(t, op, p, s, o, fn) ==
    [op |-> op, self |-> p, src |-> s, t |-> o, fn |-> fn, it |-> 0,
     ret |-> NoObj, exc |-> FALSE, inner |-> NoInner,
     pre |-> IF t = MainThread THEN objects ELSE <<>>, log |-> <<>>]

Init ==
    /\ alive = [p \in Pools |-> TRUE]
    /\ objects = [p \in Pools |-> <<>>]
    /\ lock = [p \in Pools |-> NoThread]
    /\ pc = [t \in Threads |-> "idle"]
    /\ frame = [t \in Threads |-> IdleFrame]
    /\ nextObj = 1
    /\ registered = [o \in Objs |-> "none"]
    /\ deleted = [o \in Objs |-> <<>>]

\* Cap on the length of _objects: twice the number of objects allocated (a
\* self-acquire doubles a full list before it empties it).
MaxLen == 2 * (nextObj - 1)

\* Pool p can be called: it is constructed and no thread is destructing it.
Usable(p) ==
    /\ alive[p]
    /\ \A u \in Threads :
          ~(pc[u] # "idle" /\ frame[u].op = "~ObjectPool" /\ frame[u].self = p)

\* No other thread is inside a call on pool p.
Quiescent(t, p) ==
    \A u \in Threads \ {t} :
        pc[u] = "idle" \/ (frame[u].self # p /\ frame[u].src # p)

--------------------------------------------------------------------------
\* The calls: a thread enters a method.

\* add(new T) (fn = ScalarDelete) or add_array(new T[k]) (fn = ArrayDelete);
\* the callers allocate at most n objects.
CallAdd(t, p, fn, n) ==
    /\ pc[t] = "idle"
    /\ Usable(p)
    /\ nextObj <= n
    /\ frame' = [frame EXCEPT ![t] =
          NewFrame(t, IF fn = ScalarDelete THEN "add" ELSE "add_array",
                   p, NoPool, nextObj, fn)]
    /\ nextObj' = nextObj + 1
    /\ pc' = [pc EXCEPT ![t] = "lock"]
    /\ UNCHANGED <<alive, objects, lock, registered, deleted>>

CallClear(t, p) ==
    /\ pc[t] = "idle"
    /\ Usable(p)
    /\ frame' = [frame EXCEPT ![t] = NewFrame(t, "clear", p, NoPool, NoObj, "none")]
    /\ pc' = [pc EXCEPT ![t] = "lock"]
    /\ UNCHANGED <<alive, objects, lock, nextObj, registered, deleted>>

CallRemoveLastOne(t, p) ==
    /\ pc[t] = "idle"
    /\ Usable(p)
    /\ frame' = [frame EXCEPT ![t] =
          NewFrame(t, "remove_last_one", p, NoPool, NoObj, "none")]
    /\ pc' = [pc EXCEPT ![t] = "lock"]
    /\ UNCHANGED <<alive, objects, lock, nextObj, registered, deleted>>

\* d->acquire_data(s); s may be d itself.
CallAcquireData(t, d, s) ==
    /\ pc[t] = "idle"
    /\ Usable(d) /\ Usable(s)
    /\ frame' = [frame EXCEPT ![t] = NewFrame(t, "acquire_data", d, s, NoObj, "none")]
    /\ pc' = [pc EXCEPT ![t] = "acq_insert"]
    /\ UNCHANGED <<alive, objects, lock, nextObj, registered, deleted>>

\* A destructor that does not call clear(): ~ObjectPool() = default.
CallDestructorDefault(t, p) ==
    /\ pc[t] = "idle"
    /\ Usable(p)
    /\ Quiescent(t, p)
    /\ frame' = [frame EXCEPT ![t] = NewFrame(t, "~ObjectPool", p, NoPool, NoObj, "none")]
    /\ pc' = [pc EXCEPT ![t] = "unlock"]
    /\ UNCHANGED <<alive, objects, lock, nextObj, registered, deleted>>

\* ~ObjectPool() { clear(); }: the pool is destructed by its last user.
CallDestructor(t, p) ==
    /\ pc[t] = "idle"
    /\ Usable(p)
    /\ Quiescent(t, p)
    /\ frame' = [frame EXCEPT ![t] = NewFrame(t, "~ObjectPool", p, NoPool, NoObj, "none")]
    /\ pc' = [pc EXCEPT ![t] = "lock"]
    /\ UNCHANGED <<alive, objects, lock, nextObj, registered, deleted>>

\* ObjectPool() = default: a pool is constructed (again) in the slot p.
Construct(t, p) ==
    /\ pc[t] = "idle"
    /\ ~alive[p]
    /\ alive' = [alive EXCEPT ![p] = TRUE]
    /\ objects' = [objects EXCEPT ![p] = <<>>]
    /\ lock' = [lock EXCEPT ![p] = NoThread]
    /\ UNCHANGED <<pc, frame, nextObj, registered, deleted>>

--------------------------------------------------------------------------
\* The lock.

\* A lock that does not exclude: lock() returns although the lock is held.
CanLockAlways(p) == TRUE

\* SpinLock::lock succeeds when no thread holds the lock.
CanLock(p) == lock[p] = NoThread

\* A method that enters its body without taking the lock.
LockNotTaken(t) ==
    /\ pc[t] = "lock"
    /\ pc' = [pc EXCEPT ![t] =
          CASE frame[t].op \in {"add", "add_array"} -> "emplace"
            [] frame[t].op \in {"clear", "~ObjectPool"} -> "loop"
            [] OTHER -> "remove"]
    /\ frame' = [frame EXCEPT ![t].it = 1]
    /\ UNCHANGED <<alive, objects, lock, nextObj, registered, deleted>>

\* std::lock_guard<SpinLock> l(_lock) of add, add_array, clear and
\* remove_last_one.
Lock(t) ==
    /\ pc[t] = "lock"
    /\ CanLock(frame[t].self)
    /\ lock' = [lock EXCEPT ![frame[t].self] = t]
    /\ pc' = [pc EXCEPT ![t] =
          CASE frame[t].op \in {"add", "add_array"} -> "emplace"
            [] frame[t].op \in {"clear", "~ObjectPool"} -> "loop"
            [] OTHER -> "remove"]
    /\ frame' = [frame EXCEPT ![t].it = 1]
    /\ UNCHANGED <<alive, objects, nextObj, registered, deleted>>

\* A return that leaves the lock held.
UnlockForgotten(t) ==
    /\ pc[t] = "unlock"
    /\ pc' = [pc EXCEPT ![t] = "idle"]
    /\ frame' = [frame EXCEPT ![t] = [IdleFrame EXCEPT !.exc = frame[t].exc]]
    /\ UNCHANGED <<alive, objects, lock, nextObj, registered, deleted>>

\* The lock_guard's destructor, on return or while an exception unwinds the
\* call; the destructor's pool is gone. The caller is left with the
\* exception, if any.
Unlock(t) ==
    /\ pc[t] = "unlock"
    /\ lock' = [lock EXCEPT ![frame[t].self] = NoThread]
    /\ alive' = IF frame[t].op = "~ObjectPool"
                THEN [alive EXCEPT ![frame[t].self] = FALSE]
                ELSE alive
    /\ pc' = [pc EXCEPT ![t] = "idle"]
    /\ frame' = [frame EXCEPT ![t] = [IdleFrame EXCEPT !.exc = frame[t].exc]]
    /\ UNCHANGED <<objects, nextObj, registered, deleted>>

--------------------------------------------------------------------------
\* The statements.

\* elem.delete_fn(elem.obj), recorded in the caller's log.
InvokeDelete(t, elem) ==
    /\ Len(deleted[elem.obj]) < MaxDelete
    /\ deleted' = [deleted EXCEPT ![elem.obj] = Append(@, elem.delete_fn)]
    /\ frame' = [frame EXCEPT ![t].log = Append(@, elem),
                              ![t].it = @ + 1]

\* An add_array whose lambda is the one of add: delete, not delete[].
EmplaceScalarLambda(t) ==
    /\ pc[t] = "emplace"
    /\ Len(objects[frame[t].self]) < MaxLen
    /\ objects' = [objects EXCEPT ![frame[t].self] =
          Append(@, Element(frame[t].t, ScalarDelete))]
    /\ registered' = [registered EXCEPT ![frame[t].t] = frame[t].fn]
    /\ frame' = [frame EXCEPT ![t].ret = frame[t].t]
    /\ pc' = [pc EXCEPT ![t] = "unlock"]
    /\ UNCHANGED <<alive, lock, nextObj, deleted>>

\* An emplace_front instead of emplace_back.
EmplaceFront(t) ==
    /\ pc[t] = "emplace"
    /\ Len(objects[frame[t].self]) < MaxLen
    /\ objects' = [objects EXCEPT ![frame[t].self] =
          <<Element(frame[t].t, frame[t].fn)>> \o @]
    /\ registered' = [registered EXCEPT ![frame[t].t] = frame[t].fn]
    /\ frame' = [frame EXCEPT ![t].ret = frame[t].t]
    /\ pc' = [pc EXCEPT ![t] = "unlock"]
    /\ UNCHANGED <<alive, lock, nextObj, deleted>>

\* _objects.emplace_back(Element {t, [](void* obj) {...}}); return t;
Emplace(t) ==
    /\ pc[t] = "emplace"
    /\ Len(objects[frame[t].self]) < MaxLen
    /\ objects' = [objects EXCEPT ![frame[t].self] =
          Append(@, Element(frame[t].t, frame[t].fn))]
    /\ registered' = [registered EXCEPT ![frame[t].t] = frame[t].fn]
    /\ frame' = [frame EXCEPT ![t].ret = frame[t].t]
    /\ pc' = [pc EXCEPT ![t] = "unlock"]
    /\ UNCHANGED <<alive, lock, nextObj, deleted>>

\* A loop that tests at its end (do ... while): it calls the delete
\* function of *begin() before it compares with end(), and on an empty
\* list that is a stale Element of an object registered before.
ClearLoopDoWhile(t) ==
    /\ pc[t] = "loop"
    /\ \/ /\ frame[t].it <= Len(objects[frame[t].self])
          /\ InvokeDelete(t, objects[frame[t].self][frame[t].it])
       \/ /\ frame[t].it = 1
          /\ objects[frame[t].self] = <<>>
          /\ \E o \in Objs :
                /\ registered[o] # "none"
                /\ InvokeDelete(t, Element(o, registered[o]))
    /\ UNCHANGED <<alive, objects, lock, pc, nextObj, registered>>

\* A loop that walks the list back to front.
ClearLoopBackward(t) ==
    /\ pc[t] = "loop"
    /\ frame[t].it <= Len(objects[frame[t].self])
    /\ InvokeDelete(t, objects[frame[t].self]
                          [Len(objects[frame[t].self]) - frame[t].it + 1])
    /\ UNCHANGED <<alive, objects, lock, pc, nextObj, registered>>

\* for (Element& elem : _objects) elem.delete_fn(elem.obj);  one iteration.
\* The iterator is a position in the list as it is now: only an
\* acquire_data that races with the loop changes the list under it.
ClearLoop(t) ==
    /\ pc[t] = "loop"
    /\ frame[t].it <= Len(objects[frame[t].self])
    /\ InvokeDelete(t, objects[frame[t].self][frame[t].it])
    /\ UNCHANGED <<alive, objects, lock, pc, nextObj, registered>>

\* elem.delete_fn(elem.obj) raises: the destructor of the object throws.
\* The delete expression has run (it deallocates also when the destructor
\* throws) and the exception leaves the method through the lock_guard.
InvokeThrowingDelete(t, elem) ==
    /\ Len(deleted[elem.obj]) < MaxDelete
    /\ deleted' = [deleted EXCEPT ![elem.obj] = Append(@, elem.delete_fn)]
    /\ frame' = [frame EXCEPT ![t].log = Append(@, elem),
                              ![t].exc = TRUE]
    /\ pc' = [pc EXCEPT ![t] = "unlock"]

\* A clear() that locks and unlocks by hand: the exception leaves it with
\* the lock held.
ClearLoopThrowsLockHeld(t) ==
    /\ pc[t] = "loop"
    /\ frame[t].op = "clear"
    /\ frame[t].it <= Len(objects[frame[t].self])
    /\ Len(deleted[objects[frame[t].self][frame[t].it].obj]) < MaxDelete
    /\ deleted' = [deleted EXCEPT ![objects[frame[t].self][frame[t].it].obj] =
          Append(@, objects[frame[t].self][frame[t].it].delete_fn)]
    /\ frame' = [frame EXCEPT ![t] = [IdleFrame EXCEPT !.exc = TRUE]]
    /\ pc' = [pc EXCEPT ![t] = "idle"]
    /\ UNCHANGED <<alive, objects, lock, nextObj, registered>>

\* An iteration of clear()'s loop whose delete function raises: the rest of
\* the loop and _objects.clear() are skipped.
ClearLoopThrows(t) ==
    /\ pc[t] = "loop"
    /\ frame[t].op = "clear"
    /\ frame[t].it <= Len(objects[frame[t].self])
    /\ InvokeThrowingDelete(t, objects[frame[t].self][frame[t].it])
    /\ UNCHANGED <<alive, objects, lock, nextObj, registered>>

\* A loop that ends one Element early, before _objects.clear().
ClearListEarly(t) ==
    /\ pc[t] = "loop"
    /\ frame[t].it >= Len(objects[frame[t].self])
    /\ objects' = [objects EXCEPT ![frame[t].self] = <<>>]
    /\ pc' = [pc EXCEPT ![t] = "unlock"]
    /\ UNCHANGED <<alive, lock, frame, nextObj, registered, deleted>>

\* The loop is over: _objects.clear();
ClearList(t) ==
    /\ pc[t] = "loop"
    /\ frame[t].it > Len(objects[frame[t].self])
    /\ objects' = [objects EXCEPT ![frame[t].self] = <<>>]
    /\ pc' = [pc EXCEPT ![t] = "unlock"]
    /\ UNCHANGED <<alive, lock, frame, nextObj, registered, deleted>>

\* A remove_last_one that locks by hand and returns early, lock held.
RemoveEmptyKeepsLock(t) ==
    /\ pc[t] = "remove"
    /\ objects[frame[t].self] = <<>>
    /\ pc' = [pc EXCEPT ![t] = "idle"]
    /\ frame' = [frame EXCEPT ![t] = IdleFrame]
    /\ UNCHANGED <<alive, objects, lock, nextObj, registered, deleted>>

\* if (!_objects.empty()) is false: nothing to do.
RemoveEmpty(t) ==
    /\ pc[t] = "remove"
    /\ objects[frame[t].self] = <<>>
    /\ pc' = [pc EXCEPT ![t] = "unlock"]
    /\ UNCHANGED <<alive, objects, lock, frame, nextObj, registered, deleted>>

\* A remove_last_one that deletes _objects.front() and pops the back.
RemoveDeleteFront(t) ==
    /\ pc[t] = "remove"
    /\ objects[frame[t].self] # <<>>
    /\ InvokeDelete(t, objects[frame[t].self][1])
    /\ pc' = [pc EXCEPT ![t] = "pop_back"]
    /\ UNCHANGED <<alive, objects, lock, nextObj, registered>>

\* Element& elem = _objects.back(); elem.delete_fn(elem.obj);
RemoveDelete(t) ==
    /\ pc[t] = "remove"
    /\ objects[frame[t].self] # <<>>
    /\ InvokeDelete(t, objects[frame[t].self][Len(objects[frame[t].self])])
    /\ pc' = [pc EXCEPT ![t] = "pop_back"]
    /\ UNCHANGED <<alive, objects, lock, nextObj, registered>>

\* remove_last_one whose delete function raises: pop_back() is skipped.
RemoveDeleteThrows(t) ==
    /\ pc[t] = "remove"
    /\ objects[frame[t].self] # <<>>
    /\ InvokeThrowingDelete(t, objects[frame[t].self][Len(objects[frame[t].self])])
    /\ UNCHANGED <<alive, objects, lock, nextObj, registered>>

\* std::list::pop_back; the list can be empty here only when a racing
\* acquire_data has emptied it since back() was deleted.
PopBack(s) == IF s = <<>> THEN s ELSE SubSeq(s, 1, Len(s) - 1)

\* A remove_last_one that forgets _objects.pop_back().
RemovePopForgotten(t) ==
    /\ pc[t] = "pop_back"
    /\ pc' = [pc EXCEPT ![t] = "unlock"]
    /\ UNCHANGED <<alive, objects, lock, frame, nextObj, registered, deleted>>

\* _objects.pop_back();
RemovePop(t) ==
    /\ pc[t] = "pop_back"
    /\ objects' = [objects EXCEPT ![frame[t].self] = PopBack(@)]
    /\ pc' = [pc EXCEPT ![t] = "unlock"]
    /\ UNCHANGED <<alive, lock, frame, nextObj, registered, deleted>>

\* An insert at _objects.begin() instead of _objects.end().
InsertAtBegin(dst, srcList) == srcList \o dst

\* _objects.insert(_objects.end(), src->_objects.begin(), src->_objects.end())
\* copies the source's Elements behind the receiver's.
InsertAtEnd(dst, srcList) == dst \o srcList

\* An acquire_data that takes the receiver's lock for its two statements.
AcquireInsertLocked(t) ==
    /\ pc[t] = "acq_insert"
    /\ CanLock(frame[t].self)
    /\ Len(objects[frame[t].self]) + Len(objects[frame[t].src]) <= MaxLen
    /\ objects' = [objects EXCEPT ![frame[t].self] =
          InsertAtEnd(@, objects[frame[t].src])]
    /\ lock' = [lock EXCEPT ![frame[t].self] = t]
    /\ pc' = [pc EXCEPT ![t] = "acq_clear"]
    /\ UNCHANGED <<alive, frame, nextObj, registered, deleted>>

\* acquire_data, first statement; no lock is taken.
AcquireInsert(t) ==
    /\ pc[t] = "acq_insert"
    /\ Len(objects[frame[t].self]) + Len(objects[frame[t].src]) <= MaxLen
    /\ objects' = [objects EXCEPT ![frame[t].self] =
          InsertAtEnd(@, objects[frame[t].src])]
    /\ pc' = [pc EXCEPT ![t] = "acq_clear"]
    /\ UNCHANGED <<alive, lock, frame, nextObj, registered, deleted>>

\* An acquire_data that forgets src->_objects.clear().
AcquireClearForgotten(t) ==
    /\ pc[t] = "acq_clear"
    /\ pc' = [pc EXCEPT ![t] = "acq_return"]
    /\ UNCHANGED <<alive, objects, lock, frame, nextObj, registered, deleted>>

\* acquire_data, second statement: src->_objects.clear();
AcquireClear(t) ==
    /\ pc[t] = "acq_clear"
    /\ objects' = [objects EXCEPT ![frame[t].src] = <<>>]
    /\ pc' = [pc EXCEPT ![t] = "acq_return"]
    /\ UNCHANGED <<alive, lock, frame, nextObj, registered, deleted>>

\* acquire_data returns.
AcquireReturn(t) ==
    /\ pc[t] = "acq_return"
    /\ pc' = [pc EXCEPT ![t] = "idle"]
    /\ frame' = [frame EXCEPT ![t] = IdleFrame]
    /\ UNCHANGED <<alive, objects, lock, nextObj, registered, deleted>>

--------------------------------------------------------------------------
\* Delete functions that call a pool: the destructor of the object deleted
\* calls add, add_array, clear or remove_last_one on a pool q, the one that
\* is deleting it or another one.

\* The methods a destructor calls.
InnerOps == {"add", "add_array", "clear", "remove_last_one"}

\* elem.delete_fn(elem.obj) has been entered by t and calls q.op(...); the
\* method that invoked it goes on at resume once the delete function is
\* back. The destructor allocates the object of an inner add from the n
\* objects of the callers.
InvokeReentrantDelete(t, elem, op, q, resume, n) ==
    /\ Len(deleted[elem.obj]) < MaxDelete
    /\ op \in {"add", "add_array"} => nextObj <= n
    /\ deleted' = [deleted EXCEPT ![elem.obj] = Append(@, elem.delete_fn)]
    /\ nextObj' = IF op \in {"add", "add_array"} THEN nextObj + 1 ELSE nextObj
    /\ frame' = [frame EXCEPT
          ![t].log = Append(@, elem),
          ![t].it = @ + 1,
          ![t].inner = [op |-> op, self |-> q,
                        t |-> IF op \in {"add", "add_array"}
                              THEN nextObj ELSE NoObj,
                        resume |-> resume]]
    /\ pc' = [pc EXCEPT ![t] = "inner_lock"]

\* An iteration of the loop of clear() or of the destructor whose delete
\* function calls q.op.
ClearLoopReenters(t, q, op, n) ==
    /\ pc[t] = "loop"
    /\ frame[t].it <= Len(objects[frame[t].self])
    /\ Usable(q) \/ q = frame[t].self
    /\ InvokeReentrantDelete(t, objects[frame[t].self][frame[t].it], op, q,
                             "loop", n)
    /\ UNCHANGED <<alive, objects, lock, registered>>

\* remove_last_one whose delete function calls q.op.
RemoveDeleteReenters(t, q, op, n) ==
    /\ pc[t] = "remove"
    /\ objects[frame[t].self] # <<>>
    /\ Usable(q) \/ q = frame[t].self
    /\ InvokeReentrantDelete(t,
          objects[frame[t].self][Len(objects[frame[t].self])], op, q,
          "pop_back", n)
    /\ UNCHANGED <<alive, objects, lock, registered>>

\* A lock that its owner can take again (a recursive mutex).
InnerLockRecursive(t) ==
    /\ pc[t] = "inner_lock"
    /\ CanLock(frame[t].inner.self) \/ lock[frame[t].inner.self] = t
    /\ lock' = [lock EXCEPT ![frame[t].inner.self] = t]
    /\ pc' = [pc EXCEPT ![t] = "inner_body"]
    /\ UNCHANGED <<alive, objects, frame, nextObj, registered, deleted>>

\* std::lock_guard<SpinLock> l(_lock) of the method the destructor calls:
\* the SpinLock knows no owner, so the thread that holds it spins too.
InnerLock(t) ==
    /\ pc[t] = "inner_lock"
    /\ CanLock(frame[t].inner.self)
    /\ lock' = [lock EXCEPT ![frame[t].inner.self] = t]
    /\ pc' = [pc EXCEPT ![t] = "inner_body"]
    /\ UNCHANGED <<alive, objects, frame, nextObj, registered, deleted>>

\* The delete functions of the Elements s, each invoked once more.
RECURSIVE DeleteAll(_, _)
DeleteAll(s, del) ==
    IF s = <<>> THEN del
    ELSE DeleteAll(Tail(s),
                   [del EXCEPT ![Head(s).obj] = Append(@, Head(s).delete_fn)])

\* The body of the method the destructor calls, under the lock of its
\* pool; its own delete functions call no pool.
InnerBody(t) ==
    /\ pc[t] = "inner_body"
    /\ LET q == frame[t].inner.self
           op == frame[t].inner.op
           o == frame[t].inner.t
           fn == IF op = "add" THEN ScalarDelete ELSE ArrayDelete
           gone == CASE op = "clear" -> objects[q]
                     [] op = "remove_last_one" /\ objects[q] # <<>> ->
                          <<objects[q][Len(objects[q])]>>
                     [] OTHER -> <<>>
       IN /\ \A i \in 1 .. Len(gone) : Len(deleted[gone[i].obj]) < MaxDelete
          /\ objects' = [objects EXCEPT ![q] =
                CASE op \in {"add", "add_array"} -> Append(@, Element(o, fn))
                  [] op = "clear" -> <<>>
                  [] OTHER -> PopBack(@)]
          /\ registered' = IF op \in {"add", "add_array"}
                           THEN [registered EXCEPT ![o] = fn]
                           ELSE registered
          /\ deleted' = DeleteAll(gone, deleted)
    /\ pc' = [pc EXCEPT ![t] = "inner_unlock"]
    /\ UNCHANGED <<alive, lock, frame, nextObj>>

\* The inner method returns, its lock_guard releases the lock of its pool,
\* the delete function returns and the method that invoked it goes on.
InnerUnlock(t) ==
    /\ pc[t] = "inner_unlock"
    /\ lock' = [lock EXCEPT ![frame[t].inner.self] = NoThread]
    /\ pc' = [pc EXCEPT ![t] = frame[t].inner.resume]
    /\ frame' = [frame EXCEPT ![t].inner = NoInner]
    /\ UNCHANGED <<alive, objects, nextObj, registered, deleted>>

--------------------------------------------------------------------------
\* The specifications.

\* The methods that take the lock, called on the pools P with n objects.
LockedStep(t, P, n) ==
    \/ \E p \in P, fn \in DeleteFn : CallAdd(t, p, fn, n)
    \/ \E p \in P : CallClear(t, p)
    \/ \E p \in P : CallRemoveLastOne(t, p)
    \/ Lock(t)
    \/ Emplace(t)
    \/ ClearLoop(t)
    \/ ClearList(t)
    \/ RemoveEmpty(t)
    \/ RemoveDelete(t)
    \/ RemovePop(t)
    \/ Unlock(t)

\* acquire_data, and the construction and destruction of pools.
OtherStep(t) ==
    \/ \E d \in Pools, s \in Pools : CallAcquireData(t, d, s)
    \/ AcquireInsert(t)
    \/ AcquireClear(t)
    \/ AcquireReturn(t)
    \/ \E p \in Pools : CallDestructor(t, p)
    \/ \E p \in Pools : Construct(t, p)

\* The owner and one other thread call the locked methods at any time, and
\* the owner also calls acquire_data and destructs pools that the other
\* thread is not using: every race of acquire_data is with one call.
Next ==
    \/ \E t \in Racers : LockedStep(t, Pools, MaxRaceObj)
    \/ OtherStep(MainThread)

Spec == Init /\ [][Next]_vars

\* One thread has the pools to itself (exclusive access).
SeqNext == LockedStep(MainThread, Pools, MaxObj) \/ OtherStep(MainThread)

SeqSpec == Init /\ [][SeqNext]_vars

\* Threads call add, add_array, clear and remove_last_one concurrently on
\* one pool.
LockedNext == \E t \in Threads : LockedStep(t, {SharedPool}, MaxLockedObj)

LockedSpec == Init /\ [][LockedNext]_vars

\* The statements of thread t inside the critical section, up to the
\* release of the lock.
Critical(t) ==
    \/ Emplace(t)
    \/ ClearLoop(t)
    \/ ClearList(t)
    \/ RemoveEmpty(t)
    \/ RemoveDelete(t)
    \/ RemovePop(t)
    \/ Unlock(t)

\* The threads contend for one pool, as in LockedSpec.
FairNext == \E t \in Threads : LockedStep(t, {SharedPool}, MaxRaceObj)

\* The contention under fair scheduling: a thread inside the critical
\* section keeps running (its delete functions return), and a thread that
\* spins on the lock gets it if the lock is free again and again. Nothing
\* obliges a thread to call.
FairSpec ==
    /\ Init /\ [][FairNext]_vars
    /\ \A t \in Threads : WF_vars(Critical(t)) /\ SF_vars(Lock(t))

\* Two threads call the locked methods on one pool, with delete functions
\* that can raise.
ThrowNext ==
    \E t \in Racers :
        \/ LockedStep(t, {SharedPool}, MaxLockedObj)
        \/ ClearLoopThrows(t)
        \/ RemoveDeleteThrows(t)

ThrowSpec == Init /\ [][ThrowNext]_vars

\* The delete functions of thread t call the pools.
ReentrantStep(t, n) ==
    \/ \E q \in Pools, op \in InnerOps : ClearLoopReenters(t, q, op, n)
    \/ \E q \in Pools, op \in InnerOps : RemoveDeleteReenters(t, q, op, n)
    \/ InnerLock(t)
    \/ InnerBody(t)
    \/ InnerUnlock(t)

\* Two threads call the locked methods on the pools, with delete functions
\* that call the pools.
ReentrantNext ==
    \E t \in Racers :
        \/ LockedStep(t, Pools, MaxLockedObj)
        \/ ReentrantStep(t, MaxLockedObj)

ReentrantSpec == Init /\ [][ReentrantNext]_vars

--------------------------------------------------------------------------
\* The properties.

\* How often a delete function was invoked on o.
Times(o) == Len(deleted[o])

\* The positions of o in the list of pool p.
Places(p, o) == {i \in 1 .. Len(objects[p]) : objects[p][i].obj = o}

\* Pool p holds an Element for o.
Holds(p, o) == Places(p, o) # {}

\* MainThread is about to return from a call of op.
Returning(op) == pc[MainThread] = "unlock" /\ frame[MainThread].op = op

\* The pool, the lists at the call and the deletions of MainThread's call.
Self == frame[MainThread].self
Pre == frame[MainThread].pre
Log == frame[MainThread].log

\* C1: one thread registers objects with add and add_array and calls
\* clear(): when clear is about to return, the delete function of every
\* Element the pool held at the call was invoked exactly once, in this call,
\* and the pool holds no Element.
C1_ClearDestroysEachOnce ==
    Returning("clear") =>
        /\ objects[Self] = <<>>
        /\ Len(Log) = Len(Pre[Self])
        /\ \A i \in 1 .. Len(Pre[Self]) :
              /\ Times(Pre[Self][i].obj) = 1
              /\ \E j \in 1 .. Len(Log) : Log[j] = Pre[Self][i]

\* A clear of three registrations, scalar and array, is about to return.
C1_Witness ==
    /\ Returning("clear")
    /\ Len(Pre[Self]) = 3
    /\ \E i, j \in 1 .. 3 :
          /\ Pre[Self][i].delete_fn = ScalarDelete
          /\ Pre[Self][j].delete_fn = ArrayDelete

\* C2: with the calls made one at a time (add, add_array, clear,
\* remove_last_one, acquire_data, destruction), no delete function is
\* invoked on the same object twice, and an object that was deleted is in
\* no list once the call that deleted it has removed it: it is in a list
\* only inside that call, between its deletion and the clear() or
\* pop_back() of the list.
C2_NeverDestroyedTwice ==
    \A o \in Objs :
        /\ Times(o) <= 1
        /\ \A p \in Pools :
              (Times(o) = 1 /\ Holds(p, o)) =>
                  /\ pc[MainThread] \in {"loop", "pop_back"}
                  /\ Self = p
                  /\ \E j \in 1 .. Len(Log) : Log[j].obj = o

\* An object deleted by an earlier call is gone while a later clear of the
\* pool that once held it, refilled by acquire_data, is about to return.
C2_Witness ==
    /\ Returning("clear")
    /\ Log # <<>>
    /\ \E o \in Objs :
          /\ Times(o) = 1
          /\ \A j \in 1 .. Len(Log) : Log[j].obj # o
          /\ \A p \in Pools : ~Holds(p, o)

\* MainThread has executed both statements of self->acquire_data(src).
Acquired == pc[MainThread] = "acq_return"
Src == frame[MainThread].src

\* C3: D.acquire_data(S) on two pools with exclusive access leaves D with
\* its Elements at the call followed by those of S in S's order, leaves S
\* empty, and invokes no delete function.
C3_AcquireAppendsInOrder ==
    (Acquired /\ Self # Src) =>
        /\ objects[Self] = Pre[Self] \o Pre[Src]
        /\ objects[Src] = <<>>
        /\ Log = <<>>
        /\ \A i \in 1 .. Len(objects[Self]) : Times(objects[Self][i].obj) = 0

\* D held one Element and S two when D.acquire_data(S) was called.
C3_Witness ==
    /\ Acquired
    /\ Self # Src
    /\ Len(Pre[Self]) = 1
    /\ Len(Pre[Src]) = 2
    /\ Len(objects[Self]) = 3

\* Object o is in one place at most: in one pool, once.
HeldOnce(o) ==
    /\ \A p \in Pools : Cardinality(Places(p, o)) <= 1
    /\ \A p, q \in Pools : (Holds(p, o) /\ Holds(q, o)) => p = q

\* C4 as stated: in no reachable state, the states between the statements
\* of acquire_data included, is an object in the lists of two pools or
\* twice in one list.
C4_HeldOnceAlways == \A o \in Objs : HeldOnce(o)

\* MainThread is between the insert and the clear() of acquire_data.
Copied == pc[MainThread] = "acq_clear"

\* C4, amended: with exclusive access an object is in one list at most, and
\* once, in every state but those between the two statements of
\* acquire_data; there the Elements of the source are in both lists (twice
\* in the one list of a self-acquire), since insert copies them and only
\* the clear() that follows removes them from the source.
C4_HeldOnceOutsideAcquire ==
    /\ ~Copied => \A o \in Objs : HeldOnce(o)
    /\ Copied =>
          /\ objects[Self] = Pre[Self] \o Pre[Src]
          /\ objects[Src] = IF Self = Src THEN Pre[Src] \o Pre[Src] ELSE Pre[Src]
          /\ \A o \in Objs : Holds(Src, o) => ~HeldOnce(o)

\* acquire_data has returned after moving Elements, and each is held once.
C4_Witness ==
    /\ pc[MainThread] = "idle"
    /\ \E d, s \in Pools :
          /\ d # s
          /\ objects[s] = <<>>
          /\ Len(objects[d]) = 3
          /\ ObjsOf(objects[d]) # <<1, 2, 3>>

\* The last Element of a sequence, and the sequence without it.
Last(s) == s[Len(s)]
Front(s) == SubSeq(s, 1, Len(s) - 1)

\* C5: remove_last_one() on a pool that holds Elements invokes the delete
\* function of the last Element only, and removes that Element only: the
\* earlier Elements stay, in order and not deleted, and so do the other
\* pools'.  After add A, B, C the first call deletes C, the second B, and
\* A is deleted by no call but a later clear().
C5_RemoveLastOnly ==
    (Returning("remove_last_one") /\ Pre[Self] # <<>>) =>
        /\ objects[Self] = Front(Pre[Self])
        /\ Log = <<Last(Pre[Self])>>
        /\ Times(Last(Pre[Self]).obj) = 1
        /\ \A i \in 1 .. Len(objects[Self]) : Times(objects[Self][i].obj) = 0
        /\ \A q \in Pools \ {Self} : objects[q] = Pre[q]

\* A, B, C were registered in order in one pool; remove_last_one deleted C
\* and now B, and A is held and not deleted.
C5_Witness ==
    /\ Returning("remove_last_one")
    /\ ObjsOf(Pre[Self]) = <<1, 2>>
    /\ ObjsOf(objects[Self]) = <<1>>
    /\ Times(3) = 1 /\ Times(2) = 1 /\ Times(1) = 0
    /\ ObjsOf(Log) = <<2>>

\* MainThread is inside the loop of clear().
Clearing == pc[MainThread] = "loop" /\ frame[MainThread].op = "clear"

\* C6: clear() invokes the delete functions front to back, each Element's
\* own on its own pointer: after k iterations the first k Elements of the
\* list, in order, are the ones deleted, the list is still whole, and it is
\* emptied only when all were deleted.  Elements moved in by acquire_data
\* come after the Elements the pool held before.
C6_ClearInInsertionOrder ==
    /\ Clearing =>
          /\ objects[Self] = Pre[Self]
          /\ frame[MainThread].it <= Len(Pre[Self]) + 1
          /\ Log = SubSeq(Pre[Self], 1, frame[MainThread].it - 1)
    /\ Returning("clear") =>
          /\ Log = Pre[Self]
          /\ objects[Self] = <<>>
    /\ (Clearing \/ Returning("clear")) =>
          \A j \in 1 .. Len(Log) :
              deleted[Log[j].obj] = <<registered[Log[j].obj]>>

\* Object 3 was added to the pool and 1, 2 were moved in behind it by
\* acquire_data: clear deleted 3, then 1, then 2.
C6_Witness ==
    /\ Returning("clear")
    /\ ObjsOf(Log) = <<3, 1, 2>>

\* MainThread is about to return from the destructor of a pool.
Destructed == Returning("~ObjectPool")

\* C10: destructing a pool that holds Elements invokes the delete function
\* of each of them exactly once, front to back as clear() does, and a
\* destructed pool holds no Element.
C10_DestructorClears ==
    /\ Destructed =>
          /\ objects[Self] = <<>>
          /\ Log = Pre[Self]
          /\ \A i \in 1 .. Len(Pre[Self]) : Times(Pre[Self][i].obj) = 1
    /\ \A p \in Pools : ~alive[p] => objects[p] = <<>>

\* A pool of three Elements, none deleted by an earlier call, is destructed.
C10_Witness ==
    /\ Destructed
    /\ Len(Pre[Self]) = 3
    /\ \A o \in Objs : Times(o) = 1

\* Thread t is inside the critical section of pool p.
InCritical(t, p) ==
    /\ pc[t] \in {"emplace", "loop", "remove", "pop_back", "unlock"}
    /\ frame[t].self = p

\* C7: while several threads call add, add_array, clear and
\* remove_last_one on one pool, the critical sections exclude each other,
\* no delete function is invoked twice on an object, and every object that
\* an add has appended is still in the list unless it was deleted: none is
\* dropped from the list without its delete function having run.
C7_LockedCallsSerialized ==
    /\ \A t, u \in Threads :
          (InCritical(t, SharedPool) /\ InCritical(u, SharedPool)) => t = u
    /\ \A o \in Objs :
          /\ Times(o) <= 1
          /\ registered[o] # "none" =>
                (Holds(SharedPool, o) \/ Times(o) = 1)
    /\ \A o \in Objs : Cardinality(Places(SharedPool, o)) <= 1

\* A thread waits for the lock to add an object while another thread is in
\* the loop of clear() and has deleted the object of an earlier add.
C7_Witness ==
    \E t, u \in Threads :
        /\ pc[t] = "loop" /\ frame[t].op = "clear" /\ frame[t].log # <<>>
        /\ pc[u] = "lock" /\ frame[u].op \in {"add", "add_array"}
        /\ frame[u].self = frame[t].self

\* Thread t's next step appends to, deletes from or empties the list of p.
Mutating(t, p) ==
    \/ /\ pc[t] \in {"emplace", "loop", "remove", "pop_back"}
       /\ frame[t].self = p
    \/ pc[t] = "acq_insert" /\ frame[t].self = p
    \/ pc[t] = "acq_clear" /\ frame[t].src = p

InAcquire(t) == pc[t] \in {"acq_insert", "acq_clear", "acq_return"}

C11_ClearOfEmptyIsNoOp ==
    ((Clearing \/ Returning("clear")) /\ Pre[Self] = <<>>) =>
        /\ Log = <<>>
        /\ objects = Pre

\* Every object was deleted by earlier calls, both pools are empty, and a
\* further clear() is about to return.
C11_Witness ==
    /\ Returning("clear")
    /\ Pre = [p \in Pools |-> <<>>]
    /\ \A o \in Objs : Times(o) = 1

\* C12: the delete function of an object is the one of the method that
\* registered it, add or add_array: every Element in a list carries it,
\* also after acquire_data has copied the Element to another pool, and it
\* is the one that clear, remove_last_one or the destructor invokes.
C12_DeleteKindIsRegisteredKind ==
    /\ \A p \in Pools : \A i \in 1 .. Len(objects[p]) :
          objects[p][i].delete_fn = registered[objects[p][i].obj]
    /\ \A o \in Objs : \A k \in 1 .. Times(o) : deleted[o][k] = registered[o]
    /\ \A j \in 1 .. Len(Log) : Log[j].delete_fn = registered[Log[j].obj]
    /\ \A t \in Threads :
          pc[t] = "unlock" /\ frame[t].op \in {"add", "add_array"} =>
              registered[frame[t].t] =
                  IF frame[t].op = "add" THEN ScalarDelete ELSE ArrayDelete

\* Object 1 of add_array and object 2 of add were moved behind object 3 by
\* acquire_data, and the destructor of that pool has deleted all three, 1
\* with delete[] and 2 with delete.
C12_Witness ==
    /\ Destructed
    /\ ObjsOf(Log) = <<3, 1, 2>>
    /\ deleted[1] = <<ArrayDelete>>
    /\ deleted[2] = <<ScalarDelete>>

\* MainThread is about to return from add or add_array.
Added == Returning("add") \/ Returning("add_array")

\* C15: add and add_array return the pointer they were given, append one
\* Element for it, with the method's delete function, behind the Elements
\* the pool held, invoke no delete function, and leave the other pool as
\* it was.
C15_AddAppendsAndReturnsPointer ==
    Added =>
        /\ frame[MainThread].ret = frame[MainThread].t
        /\ objects[Self] =
              Append(Pre[Self], Element(frame[MainThread].t, frame[MainThread].fn))
        /\ \A q \in Pools \ {Self} : objects[q] = Pre[q]
        /\ Log = <<>>
        /\ \A o \in Objs : Holds(Self, o) => Times(o) = 0

\* add_array is about to return the third pointer of a pool.
C15_Witness ==
    /\ Returning("add_array")
    /\ Len(Pre[Self]) = 2
    /\ frame[MainThread].ret = 3

\* MainThread is inside remove_last_one on a pool that was empty.
RemovingFromEmpty ==
    /\ frame[MainThread].op = "remove_last_one"
    /\ Pre[Self] = <<>>

\* C16: remove_last_one() on an empty pool does nothing: from the test of
\* empty() it goes to its return with no list changed and no delete
\* function invoked, and it returns with the pool's lock released.
C16_RemoveOfEmptyIsNoOp ==
    [][/\ (RemovingFromEmpty /\ pc[MainThread] = "remove") =>
             /\ pc'[MainThread] = "unlock"
             /\ UNCHANGED <<objects, deleted, lock>>
       /\ (RemovingFromEmpty /\ pc[MainThread] = "unlock") =>
             /\ Log = <<>>
             /\ objects = Pre
             /\ pc'[MainThread] = "idle"
             /\ lock'[Self] = NoThread
             /\ UNCHANGED <<objects, deleted>>]_vars

\* remove_last_one is about to return from a pool that a clear() emptied.
C16_Witness ==
    /\ RemovingFromEmpty
    /\ pc[MainThread] = "unlock"
    /\ lock[Self] = MainThread
    /\ \E o \in Objs : Times(o) = 1

\* C17 as stated: after D.acquire_data(S), S being D itself or not, D holds
\* every object that D or S held at the call.
C17_AcquireKeepsEveryEntry ==
    Acquired =>
        \A p \in {Self, Src} : \A i \in 1 .. Len(Pre[p]) :
            Holds(Self, Pre[p][i].obj)

\* Thread t is being unwound by an exception of a delete function.
Unwinding(t) == pc[t] = "unlock" /\ frame[t].exc

\* C13: an exception of a delete function leaves clear() or
\* remove_last_one() at once, with the object still in the list and the
\* rest of the method skipped, and reaches the caller after the lock_guard
\* has released the lock; the lock is only ever held by a thread inside a
\* call, so the calls that follow can take it.
C13_ThrowReleasesLock ==
    /\ [](\A t \in Threads : Unwinding(t) =>
            /\ frame[t].op \in {"clear", "remove_last_one"}
            /\ lock[frame[t].self] = t
            /\ frame[t].log # <<>>
            /\ Holds(frame[t].self, frame[t].log[Len(frame[t].log)].obj))
    /\ [](\A p \in Pools : lock[p] # NoThread => InCritical(lock[p], p))
    /\ [][\A t \in Threads : (Unwinding(t) /\ pc'[t] # pc[t]) =>
            /\ pc'[t] = "idle"
            /\ frame'[t].exc
            /\ lock'[frame[t].self] = NoThread
            /\ UNCHANGED <<objects, deleted>>]_vars

\* A caller has the exception of its clear(), which deleted the first of
\* two objects and left both in the list, and another thread has since
\* taken the lock for its own call.
C13_Witness ==
    \E t, u \in Threads :
        /\ pc[t] = "idle" /\ frame[t].exc
        /\ pc[u] \in {"emplace", "loop", "remove"}
        /\ lock[SharedPool] = u
        /\ Len(objects[SharedPool]) = 2
        /\ Times(objects[SharedPool][1].obj) = 1
        /\ Times(objects[SharedPool][2].obj) = 0

InDeletingMethod(t) ==
    pc[t] \in {"loop", "remove", "pop_back",
               "inner_lock", "inner_body", "inner_unlock"}

\* The delete function that t runs has called a method of the pool that is
\* deleting, and waits for its lock.
SelfBlocked(t) ==
    /\ pc[t] = "inner_lock"
    /\ frame[t].inner.self = frame[t].self

\* C18: a thread holds the lock of the pool for the whole of clear() and
\* remove_last_one(), also while a delete function runs, and the lock is
\* not re-entrant: a delete function that calls add, add_array, clear or
\* remove_last_one on the same pool waits for the lock its own thread
\* holds, and no step of any thread ends that wait.
C18_ReentrantCallNeverReturns ==
    /\ [](\A t \in Threads : InDeletingMethod(t) => lock[frame[t].self] = t)
    /\ [][\A t \in Threads : SelfBlocked(t) =>
            /\ pc'[t] = "inner_lock"
            /\ frame'[t] = frame[t]
            /\ lock'[frame[t].self] = t]_vars

\* The delete function of the only Element of a pool, invoked by clear(),
\* has called add on that pool and waits for the lock, and so does the
\* other thread.
C18_Witness ==
    \E t, u \in Threads :
        /\ SelfBlocked(t)
        /\ frame[t].op = "clear"
        /\ frame[t].inner.op = "add"
        /\ pc[u] = "lock" /\ frame[u].self = frame[t].self

==========================================================================
